---- MODULE Spec2Model ----
(***************************************************************************)
(* HousePriceEstimator: the postcode -> borough index and its CLI          *)
(* (scripts/postcode_to_borough.py), the Price Paid Data loader            *)
(* (scripts/load_data.py), and the /predict endpoint (app/main.py) against *)
(* the feature list of the training script (model.py).                     *)
(*                                                                         *)
(* A Python str is a sequence of units.  A unit is one character, written  *)
(* as a one-character string; a LAD code or a borough name, which the code *)
(* only ever compares whole, is a single unit.  Python's None is the value *)
(* None below, which no str of the model equals.                           *)
(***************************************************************************)
EXTENDS Integers, Sequences, FiniteSets, TLC

VARIABLES
    pc, norm, renorm,                       \* normalize_postcode: argument, result, result of the result
    onspd, pcds_to_lad, built, cursor,      \* PostcodeToBoroughIndex and the file it reads
    raised, prev, last,                     \* the exception of the last call, the last two lookups
    argv, stdout, outfile, exit,            \* main(): arguments, what it prints and writes, how it ends
    ppd, opts, df,                          \* load_clean_ppd: raw frame, keyword arguments, result
    ART, x, response                        \* app/main.py: the loaded artifact, a request body, the response

normVars == <<pc, norm, renorm>>
indexVars == <<onspd, pcds_to_lad, built, cursor, raised, prev, last>>
cliVars == <<argv, stdout, outfile, exit>>
ppdVars == <<ppd, opts, df>>
apiVars == <<ART, x, response>>
vars == <<normVars, indexVars, cliVars, ppdVars, apiVars>>

None == <<"None">>

\* A call that has not been made.
NoCall == [made |-> FALSE]

----------------------------------------------------------------------------
(* str methods *)

\* str.strip() with no argument removes whitespace; the model's whitespace.
Whitespace == {" ", "\t", "\n"}

\* str.upper() on the letters of the model; every other unit is unchanged.
UPPER == ("a" :> "A") @@ ("e" :> "E") @@ ("n" :> "N") @@ ("x" :> "X") @@ ("m" :> "M")

RECURSIVE lstrip(_, _)
lstrip(s, chars) ==
    IF s # <<>> /\ Head(s) \in chars THEN lstrip(Tail(s), chars) ELSE s

RECURSIVE rstrip(_, _)
rstrip(s, chars) ==
    IF s # <<>> /\ s[Len(s)] \in chars THEN rstrip(SubSeq(s, 1, Len(s) - 1), chars) ELSE s

strip(s, chars) == rstrip(lstrip(s, chars), chars)

upper(s) == [i \in 1..Len(s) |-> IF s[i] \in DOMAIN UPPER THEN UPPER[s[i]] ELSE s[i]]

\* s.replace(old, "") for a one-character old.
remove(s, old) == SelectSeq(s, LAMBDA c : c # old)

startswith(s, prefix) ==
    Len(prefix) <= Len(s) /\ SubSeq(s, 1, Len(prefix)) = prefix

----------------------------------------------------------------------------
(* normalize_postcode *)

MinFullLen == 5

normalize_postcode_keep_spaces(p) ==
    LET s == upper(strip(p, Whitespace))
    IN  IF Len(s) < MinFullLen
        THEN upper(strip(p, Whitespace))
        ELSE SubSeq(s, 1, Len(s) - 3) \o <<" ">> \o SubSeq(s, Len(s) - 2, Len(s))

normalize_postcode_no_upper(p) ==
    LET s == remove(strip(p, Whitespace), " ")
    IN  IF Len(s) < MinFullLen
        THEN upper(strip(p, Whitespace))
        ELSE SubSeq(s, 1, Len(s) - 3) \o <<" ">> \o SubSeq(s, Len(s) - 2, Len(s))

normalize_postcode(p) ==
    LET s == remove(upper(strip(p, Whitespace)), " ")
    IN  IF Len(s) < MinFullLen
        THEN upper(strip(p, Whitespace))
        ELSE SubSeq(s, 1, Len(s) - 3) \o <<" ">> \o SubSeq(s, Len(s) - 2, Len(s))

----------------------------------------------------------------------------
(* PostcodeToBoroughIndex *)

LondonNames ==
    ("E09000001" :> "City of London") @@
    ("E09000002" :> "Barking and Dagenham") @@
    ("E09000003" :> "Barnet") @@
    ("E09000004" :> "Bexley") @@
    ("E09000005" :> "Brent") @@
    ("E09000006" :> "Bromley") @@
    ("E09000007" :> "Camden") @@
    ("E09000008" :> "Croydon") @@
    ("E09000009" :> "Ealing") @@
    ("E09000010" :> "Enfield") @@
    ("E09000011" :> "Greenwich") @@
    ("E09000012" :> "Hackney") @@
    ("E09000013" :> "Hammersmith and Fulham") @@
    ("E09000014" :> "Haringey") @@
    ("E09000015" :> "Harrow") @@
    ("E09000016" :> "Havering") @@
    ("E09000017" :> "Hillingdon") @@
    ("E09000018" :> "Hounslow") @@
    ("E09000019" :> "Islington") @@
    ("E09000020" :> "Kensington and Chelsea") @@
    ("E09000021" :> "Kingston upon Thames") @@
    ("E09000022" :> "Lambeth") @@
    ("E09000023" :> "Lewisham") @@
    ("E09000024" :> "Merton") @@
    ("E09000025" :> "Newham") @@
    ("E09000026" :> "Redbridge") @@
    ("E09000027" :> "Richmond upon Thames") @@
    ("E09000028" :> "Southwark") @@
    ("E09000029" :> "Sutton") @@
    ("E09000030" :> "Tower Hamlets") @@
    ("E09000031" :> "Waltham Forest") @@
    ("E09000032" :> "Wandsworth") @@
    ("E09000033" :> "Westminster")

\* The dict, keyed by str.
LONDON_LAD_CODE_TO_NAME ==
    [k \in {<<c>> : c \in DOMAIN LondonNames} |-> <<LondonNames[k[1]]>>]

REQUIRED_COLUMNS == {"pcds", "lad25cd"}

\* dict.get(k) and d[k] = v; a dict is a function on its keys.
get(d, k) == IF k \in DOMAIN d THEN d[k] ELSE None

put(d, k, v) == [j \in (DOMAIN d) \cup {k} |-> IF j = k THEN v ELSE d[j]]

EmptyDict == <<>>

\* The body of build's loop for one row of the reader.
IndexRow(d, row) ==
    LET lad == strip(strip(row.lad25cd, Whitespace), {"\""})
    IN  IF lad \in DOMAIN LONDON_LAD_CODE_TO_NAME
        THEN LET pcds == strip(strip(row.pcds, Whitespace), {"\""})
             IN  IF pcds # <<>> THEN put(d, pcds, lad) ELSE d
        ELSE d

RECURSIVE IndexRows(_, _)
IndexRows(d, rows) ==
    IF rows = <<>> THEN d ELSE IndexRows(IndexRow(d, Head(rows)), Tail(rows))

\* What build raises before it reads a row, "none" when it goes on to read.
BuildError(file) ==
    IF ~file.exists THEN "FileNotFoundError"
    ELSE IF ~(REQUIRED_COLUMNS \subseteq file.fieldnames) THEN "ValueError"
    ELSE "none"

\* The lookup on the dict of a built index.
Lookup(d, postcode) ==
    LET pcds == normalize_postcode(postcode)
        lad == get(d, pcds)
    IN  IF lad = None \/ lad = <<>>
        THEN <<None, None>>
        ELSE <<get(LONDON_LAD_CODE_TO_NAME, lad), lad>>

----------------------------------------------------------------------------
(* The values the model draws its inputs from *)

MaxLen == 6
MaxRows == 2
MaxInputs == 2

NormAlphabet == {"a", "A", "1", " ", "\t"}

Strings(n) == UNION {[1..k -> NormAlphabet] : k \in 0..n}

SeqsUpTo(S, n) == UNION {[1..k -> S] : k \in 0..n}

\* pcds fields of the file: "E1 6AN", "e16an", "E16", "".
PcdsPool ==
    { <<"E", "1", " ", "6", "A", "N">>, <<"e", "1", "6", "a", "n">>, <<"E", "1", "6">>, <<>> }

\* lad25cd fields of the file: two London codes (one padded and quoted), Hartlepool.
LadPool ==
    { <<"E09000001">>, <<" ", "\"", "E09000033", "\"">>, <<"E06000001">> }

OnspdRows == [pcds : PcdsPool, lad25cd : LadPool]

\* The file at onspd_csv_path: absent, without the lad25cd column, or complete.
OnspdFiles ==
    { [exists |-> FALSE, fieldnames |-> {}, rows |-> <<>>],
      [exists |-> TRUE, fieldnames |-> {"pcds", "lat", "long"}, rows |-> <<>>] }
    \cup [exists : {TRUE}, fieldnames : {{"pcds", "lad25cd", "lat", "long"}},
          rows : SeqsUpTo(OnspdRows, MaxRows)]

\* Postcodes callers pass: "E1 6AN", "e16an", " E1  6an", "E16", "e1 6", "M1 1AE", "".
PostcodePool ==
    { <<"E", "1", " ", "6", "A", "N">>, <<"e", "1", "6", "a", "n">>,
      <<" ", "E", "1", " ", " ", "6", "a", "n">>, <<"E", "1", "6">>, <<"e", "1", " ", "6">>,
      <<"M", "1", " ", "1", "A", "E">>, <<>> }

\* Lines of the --infile: "e16an", a blank line, "E16".
LinePool ==
    { <<"e", "1", "6", "a", "n", "\n">>, <<" ", "\n">>, <<"E", "1", "6", "\n">> }

\* Positional postcodes of the command line: "E1 6AN", "e16an", "M1 1AE".
ArgPool ==
    { <<"E", "1", " ", "6", "A", "N">>, <<"e", "1", "6", "a", "n">>,
      <<"M", "1", " ", "1", "A", "E">> }

\* --infile: not given, given and absent, given with its lines.
Infiles ==
    { [given |-> FALSE, exists |-> FALSE, lines |-> <<>>],
      [given |-> TRUE, exists |-> FALSE, lines |-> <<>>] }
    \cup [given : {TRUE}, exists : {TRUE}, lines : SeqsUpTo(LinePool, MaxInputs)]

Argvs ==
    [made : {TRUE}, describe : BOOLEAN, infile : Infiles,
     postcodes : SeqsUpTo(ArgPool, MaxInputs), outfile : BOOLEAN]

----------------------------------------------------------------------------
(* Each part of the repository runs on its own; the others stay as constructed. *)

NormIdle == pc = <<>> /\ norm = None /\ renorm = None

IndexIdle ==
    /\ onspd = [exists |-> FALSE, fieldnames |-> {}, rows |-> <<>>]
    /\ pcds_to_lad = EmptyDict /\ built = FALSE /\ cursor = 0
    /\ raised = "none" /\ prev = NoCall /\ last = NoCall

CliIdle == argv = NoCall /\ stdout = <<>> /\ outfile = <<>> /\ exit = NoCall

PpdIdle == ppd = <<>> /\ opts = NoCall /\ df = NoCall

ApiIdle == ART = NoCall /\ x = NoCall /\ response = NoCall

----------------------------------------------------------------------------
(* normalize_postcode applied to every short string, and to its own result *)

InitNorm ==
    /\ pc \in Strings(MaxLen) /\ norm = None /\ renorm = None
    /\ IndexIdle /\ CliIdle /\ PpdIdle /\ ApiIdle

Normalize ==
    /\ norm = None
    /\ norm' = normalize_postcode(pc)
    /\ UNCHANGED <<pc, renorm, indexVars, cliVars, ppdVars, apiVars>>

Renormalize ==
    /\ norm # None /\ renorm = None
    /\ renorm' = normalize_postcode(norm)
    /\ UNCHANGED <<pc, norm, indexVars, cliVars, ppdVars, apiVars>>

NextNorm == Normalize \/ Renormalize

SpecNorm == InitNorm /\ [][NextNorm]_vars

----------------------------------------------------------------------------
(* PostcodeToBoroughIndex: __init__, build, postcode_to_borough *)

\* __init__ on a path; the file at the path does not change afterwards.
Init ==
    /\ onspd \in OnspdFiles
    /\ pcds_to_lad = EmptyDict /\ built = FALSE /\ cursor = 0
    /\ raised = "none" /\ prev = NoCall /\ last = NoCall
    /\ NormIdle /\ CliIdle /\ PpdIdle /\ ApiIdle

\* build(): the early return, the two raises, or the reader is opened.
\* cursor = 0: no build is running; cursor = k > 0: the loop is about to read row k.
BuildOpen ==
    /\ cursor = 0
    /\ IF built
       THEN UNCHANGED <<cursor, raised>>
       ELSE /\ raised' = BuildError(onspd)
            /\ cursor' = IF BuildError(onspd) = "none" THEN 1 ELSE 0
    /\ UNCHANGED <<onspd, pcds_to_lad, built, prev, last, normVars, cliVars, ppdVars, apiVars>>

\* One iteration of "for row in reader".
BuildRow ==
    /\ cursor >= 1 /\ cursor <= Len(onspd.rows)
    /\ pcds_to_lad' = IndexRow(pcds_to_lad, onspd.rows[cursor])
    /\ cursor' = cursor + 1
    /\ UNCHANGED <<onspd, built, raised, prev, last, normVars, cliVars, ppdVars, apiVars>>

\* The reader is exhausted: self._built = True.
BuildClose ==
    /\ cursor = Len(onspd.rows) + 1
    /\ built' = TRUE
    /\ cursor' = 0
    /\ UNCHANGED <<onspd, pcds_to_lad, raised, prev, last, normVars, cliVars, ppdVars, apiVars>>

\* postcode_to_borough(postcode): builds first when the index is not built (the
\* whole of build, in the one thread there is), then looks the postcode up.
PostcodeToBorough(postcode) ==
    /\ cursor = 0
    /\ LET err == IF built THEN "none" ELSE BuildError(onspd)
           d == IF built THEN pcds_to_lad ELSE IndexRows(pcds_to_lad, onspd.rows)
       IN  IF err # "none"
           THEN /\ raised' = err
                /\ last' = [made |-> TRUE, postcode |-> postcode, raised |-> err, result |-> <<>>]
                /\ UNCHANGED <<pcds_to_lad, built>>
           ELSE /\ raised' = "none"
                /\ pcds_to_lad' = d
                /\ built' = TRUE
                /\ last' = [made |-> TRUE, postcode |-> postcode, raised |-> "none",
                             result |-> Lookup(d, postcode)]
    /\ prev' = last
    /\ UNCHANGED <<onspd, cursor, normVars, cliVars, ppdVars, apiVars>>

Next ==
    \/ BuildOpen
    \/ BuildRow
    \/ BuildClose
    \/ \E postcode \in PostcodePool : PostcodeToBorough(postcode)

Spec == Init /\ [][Next]_vars

----------------------------------------------------------------------------
(* Properties of normalize_postcode (SpecNorm) *)

\* The characters of p that normalize_postcode keeps when it re-spaces p.
NonSpaceCount(p) == Len(remove(strip(p, Whitespace), " "))

AllUpper(s) == \A i \in 1..Len(s) : s[i] \notin DOMAIN UPPER

\* Exactly one space character, immediately before the last three characters.
OneSpaceBeforeLastThree(s) ==
    /\ Len(s) >= 4
    /\ \A i \in 1..Len(s) : (s[i] = " ") <=> (i = Len(s) - 3)

\* C4 as stated: for every input string the result is in the ONSPD pcds style
\* (all letters uppercase, exactly one space, placed immediately before the last
\* three characters), and normalize_postcode is idempotent.
C4_AnyInputPcdsStyle ==
    /\ norm # None => AllUpper(norm) /\ OneSpaceBeforeLastThree(norm)
    /\ renorm # None => renorm = norm

\* C4 amended: for every input string the result has all letters uppercase and
\* normalize_postcode is idempotent; the result has exactly one space character,
\* placed immediately before the last three characters, when the input holds at
\* least five characters other than spaces and surrounding whitespace.
C4_LongInputPcdsStyle ==
    /\ norm # None => AllUpper(norm)
    /\ norm # None /\ NonSpaceCount(pc) >= MinFullLen => OneSpaceBeforeLastThree(norm)
    /\ renorm # None => renorm = norm

\* An input of five non-space characters with a lowercase letter and a misplaced
\* space has been normalized, and its result normalized again.
C4_Witness ==
    /\ norm # None /\ renorm # None
    /\ NonSpaceCount(pc) >= MinFullLen
    /\ ~AllUpper(pc)
    /\ \E i \in 1..Len(pc) : pc[i] = " " /\ i # Len(pc) - 3

----------------------------------------------------------------------------
(* Properties of the index and its lookups (Spec) *)

RowLad(row) == strip(strip(row.lad25cd, Whitespace), {"\""})

RowPcds(row) == strip(strip(row.pcds, Whitespace), {"\""})

\* The rows of the file that name a London borough and a postcode.
LondonRows ==
    {i \in 1..Len(onspd.rows) :
        RowLad(onspd.rows[i]) \in DOMAIN LONDON_LAD_CODE_TO_NAME /\ RowPcds(onspd.rows[i]) # <<>>}

Latest(S) == CHOOSE i \in S : \A j \in S : j <= i

Returned(call) == call.made /\ call.raised = "none"

\* C1: a lookup of the postcode of a London row of the file returns the borough
\* name and code of the last such row for that postcode; a lookup of a postcode
\* with no such row (in any formatting) returns (None, None).
C1_LookupReturnsRowBorough ==
    Returned(last) =>
        LET same == {i \in LondonRows : RowPcds(onspd.rows[i]) = last.postcode}
            any == {i \in LondonRows :
                       normalize_postcode(RowPcds(onspd.rows[i])) = normalize_postcode(last.postcode)}
        IN  /\ same # {} =>
                LET lad == RowLad(onspd.rows[Latest(same)])
                IN  last.result = <<LONDON_LAD_CODE_TO_NAME[lad], lad>>
            /\ any = {} => last.result = <<None, None>>

\* C2: in every state every key of the index is a non-empty postcode in normalized
\* form and every value is a London LAD code, and a lookup result has both a
\* borough name and a code or neither.
C2_KeysNormalizedValuesLondon ==
    /\ \A k \in DOMAIN pcds_to_lad :
          /\ k # <<>>
          /\ normalize_postcode(k) = k
          /\ pcds_to_lad[k] \in DOMAIN LONDON_LAD_CODE_TO_NAME
    /\ Returned(last) => ((last.result[1] = None) <=> (last.result[2] = None))

\* Two strings that differ only in letter case and in space characters.
SameButCaseAndSpaces(p, q) == remove(upper(p), " ") = remove(upper(q), " ")

----------------------------------------------------------------------------
(* main(argv) of scripts/postcode_to_borough.py *)

\* What print() and the csv writer put out: a line of text is a 1-tuple of a str,
\* a CSV row a 3-tuple of str.
Text(s) == <<<<s>>>>

HeaderRow == << <<"postcode">>, <<"borough_name">>, <<"borough_code">> >>

\* value or "".
OrEmpty(v) == IF v = None \/ v = <<>> THEN <<>> ELSE v

\* inputs: the stripped non-blank lines of --infile, then the positional postcodes.
Inputs(a) ==
    LET stripped == [i \in 1..Len(a.infile.lines) |-> strip(a.infile.lines[i], Whitespace)]
    IN  SelectSeq(stripped, LAMBDA l : l # <<>>) \o a.postcodes

\* One writer.writerow of the loop over inputs.
ResultRow(d, p) ==
    LET r == Lookup(d, p)
    IN  <<normalize_postcode(p), OrEmpty(r[1]), OrEmpty(r[2])>>

\* print(describe_onspd_header(args.onspd)) when --describe is given.
Described(a, file) ==
    IF ~a.describe THEN <<>>
    ELSE IF ~file.exists THEN <<Text("ONSPD file not found")>>
    ELSE <<Text("Detected ONSPD columns")>>

InitCli ==
    /\ onspd \in OnspdFiles
    /\ pcds_to_lad = EmptyDict /\ built = FALSE /\ cursor = 0
    /\ raised = "none" /\ prev = NoCall /\ last = NoCall
    /\ argv = NoCall /\ stdout = <<>> /\ outfile = <<>> /\ exit = NoCall
    /\ NormIdle /\ PpdIdle /\ ApiIdle

\* The whole call, with the index it constructs, builds and queries.
main(args) ==
    /\ ~exit.made
    /\ argv' = args
    /\ LET inputs == Inputs(args)
           err == BuildError(onspd)
           d == IndexRows(EmptyDict, onspd.rows)
           rows == <<HeaderRow>> \o [i \in 1..Len(inputs) |-> ResultRow(d, inputs[i])]
       IN  IF args.infile.given /\ ~args.infile.exists
           THEN /\ stdout' = Described(args, onspd)
                /\ exit' = [made |-> TRUE, raised |-> "none", code |-> 2]
                /\ UNCHANGED <<outfile, pcds_to_lad, built, raised>>
           ELSE IF inputs = <<>>
           THEN /\ stdout' = Described(args, onspd)
                               \o (IF args.describe THEN <<>> ELSE <<Text("usage")>>)
                /\ exit' = [made |-> TRUE, raised |-> "none", code |-> IF args.describe THEN 0 ELSE 1]
                /\ UNCHANGED <<outfile, pcds_to_lad, built, raised>>
           ELSE IF err # "none"
           THEN /\ stdout' = Described(args, onspd)
                /\ exit' = [made |-> TRUE, raised |-> err, code |-> 1]
                /\ raised' = err
                /\ UNCHANGED <<outfile, pcds_to_lad, built>>
           ELSE /\ pcds_to_lad' = d
                /\ built' = TRUE
                /\ raised' = "none"
                /\ IF args.outfile
                   THEN /\ outfile' = rows
                        /\ stdout' = Described(args, onspd) \o <<Text("Wrote results")>>
                   ELSE /\ outfile' = <<>>
                        /\ stdout' = Described(args, onspd) \o rows
                /\ exit' = [made |-> TRUE, raised |-> "none", code |-> 0]
    /\ UNCHANGED <<onspd, cursor, prev, last, normVars, ppdVars, apiVars>>

NextCli == \E args \in Argvs : main(args)

SpecCli == InitCli /\ [][NextCli]_vars

\* The CSV rows main wrote, wherever it wrote them.
CsvRows ==
    IF argv.outfile THEN outfile
    ELSE SelectSeq(stdout, LAMBDA e : Len(e) = 3)

\* The borough of a postcode according to the file: the London LAD of the last
\* row for that postcode, None when the file has no London row for it.
FileBorough(p) ==
    LET any == {i \in LondonRows :
                   normalize_postcode(RowPcds(onspd.rows[i])) = normalize_postcode(p)}
    IN  IF any = {} THEN <<None, None>>
        ELSE LET lad == RowLad(onspd.rows[Latest(any)])
             IN  <<LONDON_LAD_CODE_TO_NAME[lad], lad>>

\* C6: with a non-empty input list and a readable ONSPD file (one that exists and
\* has the pcds and lad25cd columns), main writes the
\* header row and then one row per input, in input order, each holding the
\* normalized postcode and the borough name and code of that postcode (both blank
\* when it is not in London), and returns 0.
C6_OneRowPerInputInOrder ==
    /\ exit.made
    /\ argv.infile.given => argv.infile.exists
    /\ Inputs(argv) # <<>>
    /\ BuildError(onspd) = "none"
    => /\ exit.raised = "none" /\ exit.code = 0
       /\ CsvRows = <<HeaderRow>> \o
             [i \in 1..Len(Inputs(argv)) |->
                 <<normalize_postcode(Inputs(argv)[i]),
                   OrEmpty(FileBorough(Inputs(argv)[i])[1]),
                   OrEmpty(FileBorough(Inputs(argv)[i])[2])>>]

----------------------------------------------------------------------------
(* load_clean_ppd of scripts/load_data.py *)

\* A cell of the nullable Int64 column price_paid: <<>> for <NA>, <<v>> for v.
\* A missing cell of a str column (NaN, NaT) is None.

LONDON_PREFIXES ==
    { <<"E">>, <<"E", "C">>, <<"N">>, <<"N", "W">>, <<"S", "E">>, <<"S", "W">>, <<"W">>,
      <<"W", "C">>, <<"H", "A">>, <<"U", "B">>, <<"T", "W">>, <<"E", "N">>, <<"I", "G">>,
      <<"R", "M">>, <<"D", "A">>, <<"B", "R">>, <<"C", "R">>, <<"S", "M">>, <<"K", "T">> }

DefaultMinPrice == 10000

\* Series.astype(str): a missing value becomes the str "nan" (pandas 2).
astype_str(v) == IF v = None THEN <<"n", "a", "n">> ELSE v

\* .astype(str).str.upper().str.replace(" ", "", regex=False)
clean_postcode(v) == remove(upper(astype_str(v)), " ")

\* The date strings pd.to_datetime parses; errors="coerce" gives NaT for the rest.
ParseableDates == { <<"2024-01-15">> }

to_datetime(v) == IF v \in ParseableDates THEN v ELSE None

fillna0(price) == IF price = <<>> THEN 0 ELSE price[1]

\* Series.str.contains("London", case=False, na=False) on the words of a name.
contains_london(s) ==
    \E i \in 1..Len(s) : s[i] \in {"London", "london", "LONDON"}

\* ons[use_cols].drop_duplicates("postcode"): the first row of each postcode.
drop_duplicates(rows) ==
    LET first(i) == \A j \in 1..(i - 1) : rows[j].postcode # rows[i].postcode
        keep == {i \in 1..Len(rows) : first(i)}
        RECURSIVE pick(_)
        pick(i) == IF i > Len(rows) THEN <<>>
                   ELSE (IF i \in keep THEN <<rows[i]>> ELSE <<>>) \o pick(i + 1)
    IN  pick(1)

\* df.merge(right, on="postcode", how="left"): one row per match, or the row
\* with the right-hand columns missing.
RECURSIVE merge_left(_, _)
merge_left(rows, right) ==
    IF rows = <<>> THEN <<>>
    ELSE LET r == Head(rows)
             ms == SelectSeq(right, LAMBDA o : o.postcode = r.postcode)
         IN  (IF ms = <<>> THEN <<[r EXCEPT !.lad = None]>>
              ELSE [j \in 1..Len(ms) |-> [r EXCEPT !.lad = ms[j].lad]])
             \o merge_left(Tail(rows), right)

merge_ons_no_dedup(rows, ons) ==
    LET o == [i \in 1..Len(ons.rows) |->
                 [ons.rows[i] EXCEPT !.postcode = clean_postcode(ons.rows[i].postcode)]]
    IN  merge_left(rows, o)

\* Lines 69-73: the optional merge of the ONS lookup.
merge_ons(rows, ons) ==
    LET o == [i \in 1..Len(ons.rows) |->
                 [ons.rows[i] EXCEPT !.postcode = clean_postcode(ons.rows[i].postcode)]]
    IN  merge_left(rows, drop_duplicates(o))

\* Line 84: str.startswith(tuple of prefixes).
starts_with_any(s, prefixes) == \E q \in prefixes : startswith(s, q)

\* Lines 76-85: the mask of the London filter for one row.
london_mask(r, has_lad, o) ==
    IF has_lad
    THEN contains_london(astype_str(r.lad))
    ELSE starts_with_any(r.postcode, LONDON_PREFIXES \cup o.extra_postcode_prefixes)

\* Lines 50-51.
status_filter(rows, o) ==
    IF o.drop_changed_deleted THEN SelectSeq(rows, LAMBDA r : r.record_status = "A") ELSE rows

\* Lines 52-53.
category_filter(rows, o) ==
    IF ~o.keep_category_b THEN SelectSeq(rows, LAMBDA r : r.ppd_category_type = "A") ELSE rows

\* Line 56.
price_filter(rows, o) == SelectSeq(rows, LAMBDA r : fillna0(r.price_paid) >= o.min_price)

\* Line 57.
dropna(rows) == SelectSeq(rows, LAMBDA r : r.date_of_transfer # None /\ r.postcode # None)

\* The frame load_clean_ppd returns for the raw frame and its keyword arguments:
\* its rows, and whether it has a lad column.
load_clean_ppd(raw, o) ==
    LET trimmed == [i \in 1..Len(raw) |->
                       [raw[i] EXCEPT !.postcode = clean_postcode(raw[i].postcode),
                                      !.date_of_transfer = to_datetime(raw[i].date_of_transfer)]]
        kept == dropna(price_filter(category_filter(status_filter(trimmed, o), o), o))
        has_lad == o.ons_lookup.given /\ "lad" \in o.ons_lookup.columns
        merged == IF o.ons_lookup.given THEN merge_ons(kept, o.ons_lookup) ELSE kept
        london == IF o.london_only
                  THEN SelectSeq(merged, LAMBDA r : london_mask(r, has_lad, o))
                  ELSE merged
    IN  [has_lad |-> has_lad, rows |-> london]

MaxPpdRows == 1

\* The cells of a raw PPD row that the filters read.  Postcodes: "E1 6AN",
\* "ex1 1aa" (Exeter), "M1 1AE" (Manchester), and the empty field.
PpdCells ==
    [price_paid : {<<>>, <<9999>>, <<DefaultMinPrice>>},
     date_of_transfer : {<<"2024-01-15">>, None},
     postcode : { <<"E", "1", " ", "6", "A", "N">>, <<"e", "x", "1", " ", "1", "a", "a">>,
                  <<"M", "1", " ", "1", "A", "E">>, None },
     ppd_category_type : {"A", "B"},
     record_status : {"A", "C"}]

\* read_csv: the rows in file order; transaction_id is the row's place in the file.
PpdFrames ==
    UNION { { [i \in 1..k |-> [transaction_id |-> i, lad |-> None,
                               price_paid |-> c[i].price_paid,
                               date_of_transfer |-> c[i].date_of_transfer,
                               postcode |-> c[i].postcode,
                               ppd_category_type |-> c[i].ppd_category_type,
                               record_status |-> c[i].record_status]]
              : c \in [1..k -> PpdCells] } : k \in 0..MaxPpdRows }

\* ons_lookup: None, a directory with a lad column (two rows for one postcode),
\* a directory without one.
OnsLookups ==
    { [given |-> FALSE, columns |-> {}, rows |-> <<>>],
      [given |-> TRUE, columns |-> {"postcode", "lad"},
       rows |-> << [postcode |-> <<"e", "1", " ", "6", "a", "n">>,
                    lad |-> <<"CITY", " ", "OF", " ", "LONDON">>],
                   [postcode |-> <<"E", "1", "6", "A", "N">>,
                    lad |-> <<"Tower", " ", "Hamlets">>],
                   [postcode |-> <<"E", "X", "1", " ", "1", "A", "A">>,
                    lad |-> <<"Exeter">>] >>],
      [given |-> TRUE, columns |-> {"postcode", "lat", "lon"},
       rows |-> << [postcode |-> <<"E", "1", " ", "6", "A", "N">>, lad |-> None],
                   [postcode |-> <<"e", "1", "6", "a", "n">>, lad |-> None] >>] }

PpdOptions ==
    [made : {TRUE}, ons_lookup : OnsLookups, london_only : BOOLEAN,
     keep_category_b : BOOLEAN, min_price : {0, DefaultMinPrice},
     drop_changed_deleted : BOOLEAN, extra_postcode_prefixes : {{}, {<<"M">>}}]

InitPpd ==
    /\ ppd \in PpdFrames /\ opts = NoCall /\ df = NoCall
    /\ NormIdle /\ IndexIdle /\ CliIdle /\ ApiIdle

\* load_clean_ppd(csv_path, **o) on the file whose rows are ppd.
Load(o) ==
    /\ ~df.made
    /\ opts' = o
    /\ df' = [made |-> TRUE] @@ load_clean_ppd(ppd, o)
    /\ UNCHANGED <<ppd, normVars, indexVars, cliVars, apiVars>>

NextPpd == \E o \in PpdOptions : Load(o)

SpecPpd == InitPpd /\ [][NextPpd]_vars

----------------------------------------------------------------------------
(* Properties of load_clean_ppd (SpecPpd) *)

Digits == {"1", "6"}

\* The leading letters of a postcode, before its first digit.
RECURSIVE AreaLetters(_)
AreaLetters(s) ==
    IF s = <<>> \/ Head(s) \in Digits THEN <<>> ELSE <<Head(s)>> \o AreaLetters(Tail(s))

\* The raw row a returned row stems from.
Source(r) == ppd[r.transaction_id]

IsReturned(i) == \E j \in 1..Len(df.rows) : df.rows[j].transaction_id = i

\* C7: with london_only, without a lad column every returned row (with a postcode)
\* has area letters in LONDON_PREFIXES or extra_postcode_prefixes; with a lad
\* column every returned row has a lad containing "London".
C7_LondonRowsOnly ==
    df.made /\ opts.london_only =>
        \A j \in 1..Len(df.rows) :
            LET r == df.rows[j]
            IN  IF df.has_lad
                THEN r.lad # None /\ contains_london(r.lad)
                ELSE Source(r).postcode # None =>
                        AreaLetters(r.postcode) \in LONDON_PREFIXES \cup opts.extra_postcode_prefixes

\* C9: no returned row has a null date_of_transfer and none stems from a raw row
\* whose postcode field is missing.
C9_NoMissingDateOrPostcode ==
    df.made =>
        \A j \in 1..Len(df.rows) :
            /\ df.rows[j].date_of_transfer # None
            /\ Source(df.rows[j]).postcode # None

\* The London filter's verdict on raw row i, had the other filters kept it.
PassesLondon(i) ==
    LET r == [ppd[i] EXCEPT !.postcode = clean_postcode(ppd[i].postcode)]
        has_lad == opts.ons_lookup.given /\ "lad" \in opts.ons_lookup.columns
        m == IF opts.ons_lookup.given THEN merge_ons(<<r>>, opts.ons_lookup) ELSE <<r>>
    IN  opts.london_only => london_mask(m[1], has_lad, opts)

StatusAndCategoryOk(r) ==
    /\ opts.drop_changed_deleted => r.record_status = "A"
    /\ ~opts.keep_category_b => r.ppd_category_type = "A"

NoRowTwice ==
    \A j, k \in 1..Len(df.rows) :
        df.rows[j].transaction_id = df.rows[k].transaction_id => j = k

\* C8 as stated: every returned row has a price that is present and >= min_price
\* and the selected record_status and ppd_category_type; no raw row that
\* satisfies the selected filters and the London filter is dropped (category B
\* rows included when keep_category_b); the merge duplicates no row.
C8_RowsSatisfyFiltersNoneLost ==
    df.made =>
        /\ \A j \in 1..Len(df.rows) :
              /\ df.rows[j].price_paid # <<>>
              /\ fillna0(df.rows[j].price_paid) >= opts.min_price
              /\ StatusAndCategoryOk(df.rows[j])
        /\ \A i \in 1..Len(ppd) :
              /\ ppd[i].price_paid # <<>> /\ fillna0(ppd[i].price_paid) >= opts.min_price
              /\ StatusAndCategoryOk(ppd[i])
              /\ PassesLondon(i)
              => IsReturned(i)
        /\ NoRowTwice

\* C8 amended: every returned row has a price that, counted as 0 when missing,
\* is >= min_price (so it is present when min_price > 0) and the selected
\* record_status and ppd_category_type; no raw row with a parseable
\* date_of_transfer that satisfies the selected filters and the London filter is
\* dropped (category B rows included when keep_category_b); the merge duplicates
\* no row.
C8_RowsSatisfyFiltersDatedNoneLost ==
    df.made =>
        /\ \A j \in 1..Len(df.rows) :
              /\ fillna0(df.rows[j].price_paid) >= opts.min_price
              /\ opts.min_price > 0 => df.rows[j].price_paid # <<>>
              /\ StatusAndCategoryOk(df.rows[j])
        /\ \A i \in 1..Len(ppd) :
              /\ fillna0(ppd[i].price_paid) >= opts.min_price
              /\ StatusAndCategoryOk(ppd[i])
              /\ ppd[i].date_of_transfer \in ParseableDates
              /\ PassesLondon(i)
              => IsReturned(i)
        /\ NoRowTwice

\* A category B row whose postcode the ONS directory lists twice has been loaded
\* with keep_category_b and london_only, and returned.
C8_Witness ==
    /\ df.made /\ opts.keep_category_b /\ opts.london_only /\ opts.drop_changed_deleted
    /\ opts.ons_lookup.given /\ df.has_lad
    /\ Len(df.rows) = 1
    /\ df.rows[1].ppd_category_type = "B"
    /\ Cardinality({k \in 1..Len(opts.ons_lookup.rows) :
          clean_postcode(opts.ons_lookup.rows[k].postcode) = df.rows[1].postcode}) = 2

----------------------------------------------------------------------------
(* model.py (the training script's artifact) and app/main.py (POST /predict) *)

CATS == <<"property_type", "tenure", "postcode", "borough">>

NUMS == <<"floor_area", "bedrooms", "bathrooms", "distance_to_station_km",
          "sale_year", "sale_quarter", "imd_decile", "lat", "lon">>

FEATS == CATS \o NUMS

\* The dict joblib.dump saves and load_model loads; the fitted model is opaque.
artifacts ==
    [made |-> TRUE, features |-> FEATS, cat_features |-> CATS, num_features |-> NUMS,
     target |-> "price_paid"]

\* The fields of the request model.
HouseFeatures ==
    {"property_type", "tenure", "postcode", "borough", "floor_area", "bedrooms", "bathrooms",
     "distance_to_station_km", "sale_year", "sale_quarter", "lat", "lon"}

\* The Field(...) constraints FastAPI checks before it calls predict.
Validates(b) ==
    /\ DOMAIN b = HouseFeatures
    /\ b.floor_area > 5 /\ b.floor_area < 1000
    /\ b.bedrooms >= 0 /\ b.bedrooms <= 15
    /\ b.bathrooms >= 0 /\ b.bathrooms <= 10
    /\ b.distance_to_station_km >= 0 /\ b.distance_to_station_km < 20
    /\ b.sale_year >= 1995 /\ b.sale_year <= 2100
    /\ b.sale_quarter >= 1 /\ b.sale_quarter <= 4

\* Request bodies, on both sides of each constraint.
Bodies ==
    [property_type : {"D", "F"}, tenure : {"L"}, postcode : {"E1 6AN"}, borough : {"Hackney"},
     floor_area : {5, 50, 1000}, bedrooms : {0, 16}, bathrooms : {1, 11},
     distance_to_station_km : {0, 20}, sale_year : {1994, 2024}, sale_quarter : {0, 4},
     lat : {51}, lon : {0}]

\* What ART["model"].predict and expm1 give for a row: a price of the model's.
Prices == {250000, 900000}

\* getattr(x, k): the field's value, or AttributeError.
getattr(b, k) ==
    IF k \in DOMAIN b THEN [raised |-> "none", value |-> b[k]]
    ELSE [raised |-> "AttributeError", value |-> k]

\* row = {k: getattr(x, k) for k in feats}; list(row.values()).  The first
\* AttributeError ends the comprehension.
RECURSIVE RowValues(_, _)
RowValues(b, feats) ==
    IF feats = <<>> THEN [raised |-> "none", values |-> <<>>]
    ELSE LET a == getattr(b, Head(feats))
             rest == RowValues(b, Tail(feats))
         IN  IF a.raised # "none" THEN [raised |-> a.raised, values |-> <<a.value>>]
             ELSE IF rest.raised # "none" THEN rest
             ELSE [raised |-> "none", values |-> <<a.value>> \o rest.values]

InitApi ==
    /\ ART = NoCall /\ x \in Bodies /\ response = NoCall
    /\ NormIdle /\ IndexIdle /\ CliIdle /\ PpdIdle

\* @app.on_event("startup")
load_model ==
    /\ ~ART.made
    /\ ART' = artifacts
    /\ UNCHANGED <<x, response, normVars, indexVars, cliVars, ppdVars>>

\* POST /predict with body x: the validation error of the framework, or predict(x).
predict ==
    /\ ART.made /\ ~response.made
    /\ \E price \in Prices :
          LET row == RowValues(x, ART.features)
          IN  response' =
                 IF ~Validates(x)
                 THEN [made |-> TRUE, status |-> 422, X |-> <<>>,
                       body |-> [detail |-> "validation error"]]
                 ELSE IF row.raised # "none"
                 THEN [made |-> TRUE, status |-> 400, X |-> <<>>,
                       body |-> [detail |-> row.raised]]
                 ELSE [made |-> TRUE, status |-> 200, X |-> row.values,
                       body |-> [estimated_price_gbp |-> price, explain |-> "notes"]]
    /\ UNCHANGED <<ART, x, normVars, indexVars, cliVars, ppdVars>>

NextApi == load_model \/ predict

SpecApi == InitApi /\ [][NextApi]_vars

\* C5: a request that passes validation is answered with a prediction: the row
\* holds one value per trained feature, in the trained order, and the response
\* holds estimated_price_gbp, not an HTTP 400 error.
C5_ValidRequestGetsPrice ==
    response.made /\ Validates(x) =>
        /\ response.status = 200
        /\ "estimated_price_gbp" \in DOMAIN response.body
        /\ response.X = [i \in 1..Len(FEATS) |-> x[FEATS[i]]]

====
